---- MODULE Spec2Model ----
(***************************************************************************)
(* Model of src/visualize.py: a Streamlit page that loads the table        *)
(* merged_education_data through two caches (connection, dataset),         *)
(* filters it by country, averages the selected indicators per country,    *)
(* draws a scatter chart and offers the aggregated table as CSV.           *)
(*                                                                         *)
(* Encoding of values                                                      *)
(*   a cell of the table is <<v>> (the integer v) or <<>> (SQL NULL, which *)
(*   pandas holds as NaN/None);                                            *)
(*   a mean is the reduced fraction <<num, den>> or <<>> (NaN);            *)
(*   the column name f"avg_{k}" is <<"avg", k>>, "IDCNTRY" is <<"IDCNTRY">>*)
(*   the axis id f"y{n}" is <<"y", n>>, the primary axis "y" is <<"y", 1>>.*)
(***************************************************************************)
EXTENDS Integers, Sequences, FiniteSets, TLC

VARIABLES
    table,         \* rows of merged_education_data in the database (external)
    clock,         \* wall-clock time in seconds
    engine_cache,  \* st.cache_resource entry of get_db_engine: <<>> or <<handle>>
    engines,       \* number of connection handles constructed so far
    data_cache,    \* st.cache_data entry of load_data: [valid, data, loaded_at]
    reads,         \* number of full reads of merged_education_data so far
    last_read,     \* what the most recent full read returned
    page           \* outcome of the most recent run of main()

vars == <<table, clock, engine_cache, engines, data_cache, reads, last_read, page>>

----------------------------------------------------------------------------
(* Bounds of the model *)

MaxRows == 3
MaxLive == 1
MaxY == 3
MaxLiveY == 1
MaxClock == 5400
TickStep == 1800

(* Program constants *)

TTL == 3600

NULL == <<>>

GROUP_BY == <<"IDCNTRY">>

(* Four of the keys of INDICATOR_MAPPING, in the order of the dictionary. *)
INDICATOR_KEYS ==
    <<"reading_score", "home_books", "teaching_hours_per_week", "teaching_years">>

KeySet == {INDICATOR_KEYS[i] : i \in 1..Len(INDICATOR_KEYS)}

INDICATOR_MAPPING == [k \in KeySet |-> <<"label", k>>]

Avg(k) == <<"avg", k>>

Axis(n) == <<"y", n>>

----------------------------------------------------------------------------
(* The rows the table may hold *)

CountryCells == << <<1>>, <<2>>, NULL >>
ReadingCells == << <<10>>, <<20>>, NULL >>
BooksCells == << <<5>>, <<8>> >>
HoursCells == << <<7>> >>
YearsCells == << <<3>>, NULL >>

NumRows == Len(CountryCells) * Len(ReadingCells)

(* Row number i: the country and the reading score run through every pair,  *)
(* the other columns follow the row number.                                  *)
RowOf(i) ==
    [IDCNTRY |-> CountryCells[(i % Len(CountryCells)) + 1],
     reading_score |->
         ReadingCells[((i \div Len(CountryCells)) % Len(ReadingCells)) + 1],
     home_books |-> BooksCells[(i % Len(BooksCells)) + 1],
     teaching_hours_per_week |-> HoursCells[1],
     teaching_years |-> YearsCells[((i \div Len(BooksCells)) % Len(YearsCells)) + 1]]

NonDecreasing(idx) == \A j \in 1..(Len(idx) - 1) : idx[j] <= idx[j + 1]

IndexSeqs(n) == {idx \in [1..n -> 0..(NumRows - 1)] : NonDecreasing(idx)}

Tables ==
    UNION {{[j \in 1..n |-> RowOf(idx[j])] : idx \in IndexSeqs(n)} : n \in 1..MaxRows}

LiveTables == {<<RowOf(i), RowOf(i + 1)>> : i \in 0..MaxLive}

----------------------------------------------------------------------------
(* Helpers on sequences and numbers *)

Range(s) == {s[i] : i \in 1..Len(s)}

RECURSIVE GCD(_, _)
GCD(a, b) == IF b = 0 THEN a ELSE GCD(b, a % b)

RECURSIVE SumSeq(_)
SumSeq(s) == IF s = <<>> THEN 0 ELSE Head(s) + SumSeq(Tail(s))

RECURSIVE SortedSeq(_)
SortedSeq(S) ==
    IF S = {} THEN <<>>
    ELSE LET m == CHOOSE a \in S : \A b \in S : a <= b
         IN <<m>> \o SortedSeq(S \ {m})

IndexOf(s, e) == CHOOSE i \in 1..Len(s) : s[i] = e

----------------------------------------------------------------------------
(* The connection provider and the dataset loader *)

(* st.cache_resource around get_db_engine: the handle is constructed on the   *)
(* first call and the cached one is returned afterwards.  The result is       *)
(* [cache, built]: the cache entry after the call and the handles built so    *)
(* far.                                                                       *)
GetDbEngineRebuilding(cache, built) ==
    [cache |-> <<built + 1>>, built |-> built + 1]

get_db_engine(cache, built) ==
    IF cache = NULL
    THEN [cache |-> <<built + 1>>, built |-> built + 1]
    ELSE [cache |-> cache, built |-> built]

(* st.cache_data(ttl=3600): an entry answers calls made less than TTL seconds *)
(* after it was stored.                                                       *)
FreshForever(entry, now) == entry.valid

Fresh(entry, now) == entry.valid /\ now - entry.loaded_at < TTL

(* load_data(): on a hit the cached table; on a miss get_db_engine() and one  *)
(* full read of the table, stored with the time of the load.                  *)
load_data(ecache, built, dcache, nreads, now, tbl) ==
    IF Fresh(dcache, now)
    THEN [df |-> dcache.data, engine_cache |-> ecache, engines |-> built,
          data_cache |-> dcache, reads |-> nreads, hit |-> TRUE]
    ELSE LET e == get_db_engine(ecache, built)
         IN [df |-> tbl, engine_cache |-> e.cache, engines |-> e.built,
             data_cache |-> [valid |-> TRUE, data |-> tbl, loaded_at |-> now],
             reads |-> nreads + 1, hit |-> FALSE]

----------------------------------------------------------------------------
(* The dataframe operations main() uses *)

Column(df, name) == [i \in 1..Len(df) |-> df[i][name]]

RECURSIVE UniqueUpTo(_, _)
UniqueUpTo(s, n) ==
    IF n = 0 THEN <<>>
    ELSE LET u == UniqueUpTo(s, n - 1)
         IN IF s[n] \in Range(u) THEN u ELSE Append(u, s[n])

(* Series.unique(): the distinct values in order of first appearance, NaN    *)
(* included.                                                                 *)
Unique(s) == UniqueUpTo(s, Len(s))

(* Series.isin(values): NaN is matched by NaN. *)
Isin(cell, values) == cell \in values

(* Lines 98-99: the filter applies only when the selection is non-empty. *)
FilterUnguarded(df, selected_countries) ==
    SelectSeq(df, LAMBDA r : Isin(r.IDCNTRY, selected_countries))

FilterCountries(df, selected_countries) ==
    IF selected_countries # {}
    THEN SelectSeq(df, LAMBDA r : Isin(r.IDCNTRY, selected_countries))
    ELSE df

(* groupby("IDCNTRY"): the groups are the distinct non-null keys, sorted     *)
(* ascending; rows with a null key belong to no group (dropna=True).         *)
GroupKeysKeepNull(df) ==
    LET cells == Range(Column(df, "IDCNTRY"))
    IN [i \in 1..Len(SortedSeq({c[1] : c \in cells \ {NULL}}))
           |-> <<SortedSeq({c[1] : c \in cells \ {NULL}})[i]>>]
       \o (IF NULL \in cells THEN <<NULL>> ELSE <<>>)

GroupKeys(df) ==
    LET cells == Range(Column(df, "IDCNTRY"))
        keys == SortedSeq({c[1] : c \in cells \ {NULL}})
    IN [i \in 1..Len(keys) |-> <<keys[i]>>]

GroupRows(df, key) == SelectSeq(df, LAMBDA r : r.IDCNTRY = key)

Frac(s, n) == LET g == GCD(s, n) IN <<s \div g, n \div g>>

(* "mean": the sum of the non-null values over their number (skipna); NaN    *)
(* when there is none.                                                       *)
MeanOverRows(cells) ==
    LET present == SelectSeq(cells, LAMBDA c : c # NULL)
        s == SumSeq([i \in 1..Len(present) |-> present[i][1]])
    IN IF Len(cells) = 0 THEN NULL ELSE Frac(s, Len(cells))

Mean(cells) ==
    LET present == SelectSeq(cells, LAMBDA c : c # NULL)
        s == SumSeq([i \in 1..Len(present) |-> present[i][1]])
    IN IF Len(present) = 0 THEN NULL ELSE Frac(s, Len(present))

(* Lines 103-106: the keyword arguments of agg(): avg_<x> first, then        *)
(* avg_<y> for each selected Y.                                              *)
AggColumns(x_axis, y_axes) ==
    <<GROUP_BY, Avg(x_axis)>> \o [i \in 1..Len(y_axes) |-> Avg(y_axes[i])]

(* Merging the two ** dictionaries of the call raises TypeError when they    *)
(* share a key, which is when the X key is among the Y keys.                 *)
DuplicateKeyword(x_axis, y_axes) == x_axis \in Range(y_axes)

(* df.groupby(...).agg(...).reset_index() *)
GroupbyAgg(df, x_axis, y_axes) ==
    LET keys == GroupKeys(df)
        src == <<x_axis>> \o y_axes
    IN [columns |-> AggColumns(x_axis, y_axes),
        rows |-> [g \in 1..Len(keys) |->
                    <<keys[g]>> \o
                    [i \in 1..Len(src) |->
                        Mean(Column(GroupRows(df, keys[g]), src[i]))]]]

NoFrame == [columns |-> <<>>, rows |-> <<>>]

ColumnOf(frame, name) ==
    LET c == IndexOf(frame.columns, name)
    IN [i \in 1..Len(frame.rows) |-> frame.rows[i][c]]

----------------------------------------------------------------------------
(* The chart *)

(* px.scatter(agg_df, x=avg_<x>, y=[avg_<y> for every selected Y],           *)
(* color="IDCNTRY", hover_name="IDCNTRY"): a list for y is wide-form input,  *)
(* so every listed column contributes one point per row of agg_df, all on    *)
(* the primary axis "y".                                                     *)
PxScatter(frame, x_col, y_cols) ==
    LET n == Len(frame.rows)
    IN [x |-> x_col, y |-> y_cols, color |-> GROUP_BY, hover_name |-> GROUP_BY,
        yaxis |-> Axis(1),
        points |-> [k \in 1..(Len(y_cols) * n) |->
                      LET j == ((k - 1) \div n) + 1
                          i == ((k - 1) % n) + 1
                      IN [IDCNTRY |-> ColumnOf(frame, GROUP_BY)[i],
                          x |-> ColumnOf(frame, x_col)[i],
                          variable |-> y_cols[j],
                          value |-> ColumnOf(frame, y_cols[j])[i]]]]

(* Line 136: yaxis=f"y{i + 2}" for the i-th element of y_axes[1:]. *)
OverlayAxis(i) == Axis(i + 2)

(* Lines 129-137: one add_scatter per element of y_axes[1:]; i counts from 0. *)
AddScatter(frame, x_axis, y, i) ==
    [x |-> ColumnOf(frame, Avg(x_axis)),
     y |-> ColumnOf(frame, Avg(y)),
     name |-> INDICATOR_MAPPING[y],
     mode |-> "markers",
     marker |-> [symbol |-> i + 2, size |-> 12],
     yaxis |-> OverlayAxis(i)]

Overlays(frame, x_axis, y_axes) ==
    IF Len(y_axes) > 1
    THEN [k \in 1..(Len(y_axes) - 1) |->
            AddScatter(frame, x_axis, y_axes[k + 1], k - 1)]
    ELSE <<>>

(* Lines 138-144: the only secondary axis the layout configures is yaxis2,   *)
(* and only when there are at least two Y indicators.                        *)
Yaxis2(y_axes) ==
    IF Len(y_axes) > 1
    THEN <<[title |-> INDICATOR_MAPPING[y_axes[2]], overlaying |-> Axis(1),
            side |-> "right"]>>
    ELSE <<>>

ConfiguredAxes(y_axes) ==
    {Axis(1)} \cup (IF Yaxis2(y_axes) # <<>> THEN {Axis(2)} ELSE {})

(* Line 151: INDICATOR_MAPPING[y_axes[0]] raises IndexError on an empty list. *)
YaxisTitleError(y_axes) == IF Len(y_axes) = 0 THEN "IndexError" ELSE "none"

NoFig ==
    [primary |-> [x |-> <<>>, y |-> <<>>, color |-> <<>>, hover_name |-> <<>>,
                  yaxis |-> <<>>, points |-> <<>>],
     overlays |-> <<>>, yaxis2 |-> <<>>, axes |-> {}, xaxis_title |-> <<>>,
     yaxis_title |-> <<>>]

Figure(frame, x_axis, y_axes) ==
    [primary |-> PxScatter(frame, Avg(x_axis),
                           [i \in 1..Len(y_axes) |-> Avg(y_axes[i])]),
     overlays |-> Overlays(frame, x_axis, y_axes),
     yaxis2 |-> Yaxis2(y_axes),
     axes |-> ConfiguredAxes(y_axes),
     xaxis_title |-> <<"avg", INDICATOR_MAPPING[x_axis]>>,
     yaxis_title |-> IF Len(y_axes) = 0 THEN <<>>
                     ELSE INDICATOR_MAPPING[y_axes[1]]]

----------------------------------------------------------------------------
(* The table view and the export *)

(* The mean reaches the formatter as a double: the quotient n/d rounded to  *)
(* the nearest value with a 53-bit significand.  With o the odd part of d,   *)
(* the double is exact when o = 1; otherwise it lies below n/d when the      *)
(* remainder of n * 2^e by o is under o/2, e being the shift that brings     *)
(* n/o into [2^52, 2^53), and above n/d when it is over.                     *)
RECURSIVE OddPart(_)
OddPart(d) == IF d % 2 = 0 THEN OddPart(d \div 2) ELSE d

(* The k with 2^k <= a/o < 2^(k+1), for a > 0. *)
RECURSIVE Log2Floor(_, _)
Log2Floor(a, o) ==
    IF a < o THEN Log2Floor(2 * a, o) - 1
    ELSE IF a >= 2 * o THEN Log2Floor(a, 2 * o) + 1
    ELSE 0

RECURSIVE PowMod(_, _)
PowMod(e, o) == IF e = 0 THEN 1 % o ELSE (2 * PowMod(e - 1, o)) % o

DoubleBelow(n, d) ==
    LET o == OddPart(d)
        e == 52 - Log2Floor(n, o)
    IN o > 1 /\ 2 * (((n % o) * PowMod(e, o)) % o) < o

(* "{:.2f}": the double rounded to hundredths, as <<whole, hundredths>>: the *)
(* nearest hundredth of its exact value, the even one when that value is     *)
(* exactly halfway; NaN prints as nan (NULL here).  Every column of agg_df   *)
(* is numeric.                                                               *)
Format2(v) ==
    IF v = NULL THEN NULL
    ELSE LET n == v[1]
             d == IF Len(v) = 1 THEN 1 ELSE v[2]
             k == (100 * n) \div d
             r == (100 * n) % d
             q == IF 2 * r < d THEN k
                  ELSE IF 2 * r > d THEN k + 1
                  ELSE IF OddPart(d) = 1 THEN (IF k % 2 = 0 THEN k ELSE k + 1)
                  ELSE IF DoubleBelow(n, d) THEN k
                  ELSE k + 1
         IN <<q \div 100, q % 100>>

StyledFrame(frame) ==
    [columns |-> frame.columns,
     rows |-> [i \in 1..Len(frame.rows) |->
                 [c \in 1..Len(frame.rows[i]) |-> Format2(frame.rows[i][c])]]]

(* to_csv(index=False): a header line of the column names, then one line per *)
(* row with the unrounded values; NaN is written as an empty field.          *)
CsvField(v) == <<"field", v>>

ToCsv(frame) ==
    [header |-> frame.columns,
     lines |-> [i \in 1..Len(frame.rows) |->
                  [c \in 1..Len(frame.rows[i]) |-> CsvField(frame.rows[i][c])]]]

NoCsv == [header |-> <<>>, lines |-> <<>>]

----------------------------------------------------------------------------
(* main() *)

RECURSIVE DistinctSeqs(_, _)
DistinctSeqs(S, n) ==
    IF n = 0 THEN {<<>>}
    ELSE LET shorter == DistinctSeqs(S, n - 1)
         IN shorter \cup
            UNION {{Append(q, e) : e \in S \ Range(q)} :
                      q \in {r \in shorter : Len(r) = n - 1}}

(* What st.multiselect can return for the Y axis: distinct keys, in the      *)
(* order they were picked; the user may clear it.                            *)
YSelections(max_y) == DistinctSeqs(KeySet, max_y)

(* Line 99 rebinds the local name df to a new frame: the frame held by the   *)
(* dataset cache is not touched.                                             *)
CacheAfterFilterInPlace(dcache, filtered) == [dcache EXCEPT !.data = filtered]

CacheAfterFilter(dcache, filtered) == dcache

(* One run of the page, top to bottom, stopping at the first exception.      *)
(* scatter_rejects: whether px.scatter itself raises for an empty y list,    *)
(* which depends on the installed plotly/pandas.                             *)
Render(df, hit, x_axis, y_axes, selected_countries, scatter_rejects) ==
    LET options == Unique(Column(df, "IDCNTRY"))
        filtered == FilterCountries(df, selected_countries)
        agg_df == GroupbyAgg(filtered, x_axis, y_axes)
        base == [hit |-> hit, loaded |-> df, x_axis |-> x_axis, y_axes |-> y_axes,
                 selected_countries |-> selected_countries, options |-> options,
                 filtered |-> filtered,
                 error |-> "none", agg_built |-> FALSE, agg_df |-> NoFrame,
                 fig_built |-> FALSE, fig |-> NoFig, chart_shown |-> FALSE,
                 table_shown |-> FALSE, styled_df |-> NoFrame,
                 download_offered |-> FALSE, csv |-> NoCsv]
    IN IF DuplicateKeyword(x_axis, y_axes)
       THEN [base EXCEPT !.error = "TypeError"]
       ELSE IF Len(y_axes) = 0 /\ scatter_rejects
       THEN [base EXCEPT !.error = "ScatterError", !.agg_built = TRUE,
                         !.agg_df = agg_df]
       ELSE IF YaxisTitleError(y_axes) # "none"
       THEN [base EXCEPT !.error = YaxisTitleError(y_axes), !.agg_built = TRUE,
                         !.agg_df = agg_df, !.fig_built = TRUE,
                         !.fig = Figure(agg_df, x_axis, y_axes)]
       ELSE [base EXCEPT !.agg_built = TRUE, !.agg_df = agg_df,
                         !.fig_built = TRUE,
                         !.fig = Figure(agg_df, x_axis, y_axes),
                         !.chart_shown = TRUE, !.table_shown = TRUE,
                         !.styled_df = StyledFrame(agg_df),
                         !.download_offered = TRUE, !.csv = ToCsv(agg_df)]

NoPage ==
    [hit |-> FALSE, loaded |-> <<>>, x_axis |-> "", y_axes |-> <<>>,
     selected_countries |-> {}, options |-> <<>>, filtered |-> <<>>,
     error |-> "not run", agg_built |-> FALSE,
     agg_df |-> NoFrame, fig_built |-> FALSE, fig |-> NoFig,
     chart_shown |-> FALSE, table_shown |-> FALSE, styled_df |-> NoFrame,
     download_offered |-> FALSE, csv |-> NoCsv]

(* Lines 76-94: what the widgets return on the first run of a session: the   *)
(* first option of the selectbox, the default of the Y multiselect, and no   *)
(* country.                                                                  *)
DefaultX == INDICATOR_KEYS[1]

DefaultY == <<"teaching_hours_per_week">>

(* main() with a Y selection of at most max_y indicators.  The run that finds *)
(* nothing read yet is the first run of the process, hence of a session, and  *)
(* sees the widgets' defaults.                                                *)
Run(max_y) ==
    \E x_axis \in KeySet, y_axes \in YSelections(max_y) :
      \E scatter_rejects \in (IF y_axes = <<>> THEN BOOLEAN ELSE {FALSE}) :
        LET l == load_data(engine_cache, engines, data_cache, reads, clock, table)
        IN \E selected_countries \in SUBSET Range(Unique(Column(l.df, "IDCNTRY"))) :
              LET p == Render(l.df, l.hit, x_axis, y_axes, selected_countries,
                              scatter_rejects)
              IN /\ reads = 0 =>
                      /\ x_axis = DefaultX
                      /\ y_axes = DefaultY
                      /\ selected_countries = {}
                 /\ page' = p
                 /\ engine_cache' = l.engine_cache
                 /\ engines' = l.engines
                 /\ data_cache' = CacheAfterFilter(l.data_cache, p.filtered)
                 /\ reads' = l.reads
                 /\ last_read' = IF l.hit THEN last_read ELSE table
                 /\ UNCHANGED <<table, clock>>

Main == Run(MaxLiveY)

(* The environment: time passes, and the table is rewritten by whoever owns  *)
(* it.                                                                       *)
Tick ==
    /\ clock + TickStep <= MaxClock
    /\ clock' = clock + TickStep
    /\ UNCHANGED <<table, engine_cache, engines, data_cache, reads, last_read, page>>

TableWrite ==
    /\ table' \in LiveTables \ {table}
    /\ UNCHANGED <<clock, engine_cache, engines, data_cache, reads, last_read, page>>

NoEntry == [valid |-> FALSE, data |-> <<>>, loaded_at |-> 0]

InitWith(tables) ==
    /\ table \in tables
    /\ clock = 0
    /\ engine_cache = NULL
    /\ engines = 0
    /\ data_cache = NoEntry
    /\ reads = 0
    /\ last_read = <<>>
    /\ page = NoPage

Init == InitWith(LiveTables)

Next == Main \/ Tick \/ TableWrite

Spec == Init /\ [][Next]_vars

(* The aggregation and the chart as functions of the table and the           *)
(* selection: the page has run once, with the defaults, on any table of at   *)
(* most MaxRows rows, and is rendered once more with any selection.          *)
InitAgg ==
    /\ table \in Tables
    /\ clock = 0
    /\ LET l == load_data(NULL, 0, NoEntry, 0, clock, table)
       IN /\ engine_cache = l.engine_cache
          /\ engines = l.engines
          /\ data_cache = l.data_cache
          /\ reads = l.reads
          /\ last_read = table
          /\ page = Render(l.df, l.hit, DefaultX, DefaultY, {}, FALSE)

RenderOnce == ~page.hit /\ Run(MaxY)

NextAgg == RenderOnce

SpecAgg == InitAgg /\ [][NextAgg]_vars

----------------------------------------------------------------------------
(* What the claims speak about, computed from the page's inputs alone *)

Rendered == page.error # "not run"

(* The indices of the loaded rows the country filter keeps. *)
KeptIdx ==
    {i \in 1..Len(page.loaded) :
        page.selected_countries = {}
        \/ page.loaded[i].IDCNTRY \in page.selected_countries}

KeptCountries == {page.loaded[i].IDCNTRY : i \in KeptIdx}

AggCountries == {page.agg_df.rows[g][1] : g \in 1..Len(page.agg_df.rows)}

NoDuplicateRows ==
    \A g, h \in 1..Len(page.agg_df.rows) :
        page.agg_df.rows[g][1] = page.agg_df.rows[h][1] => g = h

RowsOf(c) == {i \in KeptIdx : page.loaded[i].IDCNTRY = c}

RECURSIVE SumOver(_, _)
SumOver(I, key) ==
    IF I = {} THEN 0
    ELSE LET i == CHOOSE j \in I : TRUE
             v == page.loaded[i][key]
         IN (IF v = NULL THEN 0 ELSE v[1]) + SumOver(I \ {i}, key)

NonNull(I, key) == {i \in I : page.loaded[i][key] # NULL}

SelectedKeys == <<page.x_axis>> \o page.y_axes

\* C1 as stated: the aggregated table has exactly one row per distinct IDCNTRY
\* value among the rows the filter keeps (a null IDCNTRY being one of the values
\* the filter lists), and no row when the filter keeps none.
C1_OneRowPerKeptCountry ==
    page.agg_built =>
        /\ NoDuplicateRows
        /\ AggCountries = KeptCountries

\* C1 amended: the aggregated table has exactly one row per distinct non-null
\* IDCNTRY value among the rows the filter keeps; rows whose IDCNTRY is null
\* form no group, and the table is empty when no kept row has a country.
C1_OneRowPerNonNullCountry ==
    page.agg_built =>
        /\ NoDuplicateRows
        /\ AggCountries = KeptCountries \ {NULL}
        /\ (KeptCountries \ {NULL} = {} => page.agg_df.rows = <<>>)

C1_Witness ==
    /\ page.agg_built
    /\ page.selected_countries # {}
    /\ NULL \in KeptCountries
    /\ Cardinality(KeptIdx) < Len(page.loaded)
    /\ Len(page.agg_df.rows) = 1

\* C2 as stated, for the columns that hold a value in some kept row of the
\* country: every avg_<key> value of country c is the sum of that column over
\* the kept rows of c divided by the number of those rows.
C2_MeanOverAllRows ==
    page.agg_built =>
        \A g \in 1..Len(page.agg_df.rows) : \A k \in 1..Len(SelectedKeys) :
            LET c == page.agg_df.rows[g][1]
                v == page.agg_df.rows[g][k + 1]
            IN NonNull(RowsOf(c), SelectedKeys[k]) # {} =>
                 /\ v # NULL
                 /\ v[1] * Cardinality(RowsOf(c))
                      = v[2] * SumOver(RowsOf(c), SelectedKeys[k])

\* C2 amended: every avg_<key> value of country c is the sum of the non-null
\* values of that column over the kept rows of c divided by the number of those
\* non-null values, and NaN when the column is null in all of them; rows of
\* other countries and rows the filter removes never contribute.
C2_MeanOverNonNull ==
    page.agg_built =>
        \A g \in 1..Len(page.agg_df.rows) : \A k \in 1..Len(SelectedKeys) :
            LET c == page.agg_df.rows[g][1]
                v == page.agg_df.rows[g][k + 1]
                I == NonNull(RowsOf(c), SelectedKeys[k])
            IN IF I = {} THEN v = NULL
               ELSE /\ v # NULL
                    /\ v[2] > 0
                    /\ GCD(v[1], v[2]) = 1
                    /\ v[1] * Cardinality(I) = v[2] * SumOver(I, SelectedKeys[k])

C2_Witness ==
    /\ page.agg_built
    /\ page.x_axis = "reading_score"
    /\ Cardinality(KeptIdx) < Len(page.loaded)
    /\ \E g \in 1..Len(page.agg_df.rows) :
          LET c == page.agg_df.rows[g][1]
          IN /\ Cardinality(RowsOf(c)) = 2
             /\ Cardinality(NonNull(RowsOf(c), "reading_score")) = 1
             /\ page.agg_df.rows[g][2] = <<20, 1>>

\* C3: a render with an empty country selection produces the aggregated table
\* of a render that selects every distinct IDCNTRY value of the loaded dataset,
\* and a render that selects them all produces the table of the unfiltered
\* dataset.
C3_EmptyFilterIsAllCountries ==
    LET all == Range(Column(page.loaded, "IDCNTRY"))
        chosen == SelectSeq(page.loaded, LAMBDA r : r.IDCNTRY \in all)
    IN page.agg_built =>
        /\ page.selected_countries = {} =>
              page.agg_df = GroupbyAgg(chosen, page.x_axis, page.y_axes)
        /\ page.selected_countries = all =>
              page.agg_df = GroupbyAgg(page.loaded, page.x_axis, page.y_axes)

C3_Witness ==
    /\ page.agg_built
    /\ page.selected_countries = {}
    /\ Len(page.options) = 3
    /\ Len(page.agg_df.rows) = 2

\* C6 as stated: every render with a non-empty Y selection, the X key among the
\* Y keys or not, completes, and the CSV export's header is IDCNTRY, avg_<x>,
\* avg_<y> for each selected Y, with the columns and the row count of the
\* displayed table.
C6_ExportMatchesTable ==
    (Rendered /\ page.y_axes # <<>>) =>
        /\ page.error = "none"
        /\ page.download_offered
        /\ page.csv.header =
              <<GROUP_BY, Avg(page.x_axis)>>
              \o [i \in 1..Len(page.y_axes) |-> Avg(page.y_axes[i])]
        /\ page.csv.header = page.styled_df.columns
        /\ Len(page.csv.lines) = Len(page.styled_df.rows)

\* C7 as stated: with the Y selection [A, B] the chart has exactly one overlay
\* series, and the primary series carries the data it carries with the
\* selection [A]: one point per country, avg_A against avg_X.
C7_PrimarySeriesOnlyFirstY ==
    (page.chart_shown /\ Len(page.y_axes) = 2) =>
        /\ Len(page.fig.overlays) = 1
        /\ Len(page.fig.primary.points) = Len(page.agg_df.rows)
        /\ \A k \in 1..Len(page.fig.primary.points) :
              page.fig.primary.points[k].variable = Avg(page.y_axes[1])

\* C8 as stated: every additional series is on the secondary axis the layout
\* configures (y2), and no series references an axis the layout does not
\* configure.
C8_OverlaysOnConfiguredAxis ==
    (page.chart_shown /\ Len(page.y_axes) >= 2) =>
        \A k \in 1..Len(page.fig.overlays) :
            /\ page.fig.overlays[k].yaxis = Axis(2)
            /\ page.fig.overlays[k].yaxis \in page.fig.axes

----------------------------------------------------------------------------
(* The caches *)

InWindow == data_cache.valid /\ clock - data_cache.loaded_at < TTL

Called == page' # page \/ reads' # reads

\* C4: a call of load_data() made within 3600 seconds of the load that filled
\* the cache returns the table that load read and issues no read; a call made
\* once the window has expired issues exactly one read of the table as it is
\* then and starts a new window, within which calls issue none.
C4_CacheWindow ==
    [][Called =>
         IF InWindow
         THEN /\ reads' = reads
              /\ page'.hit
              /\ page'.loaded = last_read
              /\ UNCHANGED <<data_cache, last_read>>
         ELSE /\ reads' = reads + 1
              /\ ~page'.hit
              /\ page'.loaded = table
              /\ last_read' = table
              /\ data_cache' = [valid |-> TRUE, data |-> table, loaded_at |-> clock]
      ]_vars

C4_Witness ==
    /\ reads = 2
    /\ page.hit
    /\ clock > data_cache.loaded_at
    /\ data_cache.loaded_at >= TTL
    /\ page.loaded # table

\* C5: get_db_engine() constructs at most one connection handle in the life of
\* the process: the first call constructs it, and every later call, those of
\* load_data() on a miss of the dataset cache included, returns that handle.
C5_OneEngine ==
    /\ engines <= 1
    /\ (reads >= 1 => engines = 1 /\ engine_cache = <<1>>)
    /\ (reads = 0 => engines = 0 /\ engine_cache = NULL)

C5_Witness == reads = 2 /\ engines = 1 /\ engine_cache = <<1>>

EmptyY == Rendered /\ page.y_axes = <<>>

\* C9 as stated: a render with an empty Y selection ends in an uncaught
\* failure before the chart, the table and the download are reached, and
\* leaves the two caches unchanged; the render that follows it with a
\* non-empty Y selection completes normally, with the chart, the table and
\* the download on the page.
C9_EmptyYFailsNextRenderCompletes ==
    [][/\ (Called /\ page'.y_axes = <<>>) =>
            /\ page'.error # "none"
            /\ ~page'.chart_shown /\ ~page'.table_shown /\ ~page'.download_offered
            /\ UNCHANGED <<engine_cache, data_cache>>
       /\ (EmptyY /\ Called /\ page'.y_axes # <<>>) =>
            /\ page'.error = "none"
            /\ page'.chart_shown /\ page'.table_shown /\ page'.download_offered
      ]_vars

\* C10: renders leave the cached dataset as it was read: in every render the
\* country filter's options are the distinct IDCNTRY values of the whole
\* dataset as read, whatever an earlier render filtered, and the aggregated
\* table is the aggregation of that dataset under the current selection alone.
C10_RendersLeaveDataset ==
    Rendered =>
        /\ data_cache.valid /\ data_cache.data = last_read
        /\ page.loaded = last_read
        /\ page.options = Unique(Column(last_read, "IDCNTRY"))
        /\ page.agg_built =>
              page.agg_df =
                GroupbyAgg(FilterCountries(last_read, page.selected_countries),
                           page.x_axis, page.y_axes)

C10_Witness ==
    /\ page.hit
    /\ page.agg_built
    /\ page.selected_countries # {}
    /\ Len(page.filtered) < Len(page.loaded)
    /\ Len(page.options) = 2
    /\ data_cache.data = last_read
    /\ Len(page.filtered) < Len(data_cache.data)

====
